---- MODULE Spec2Model ----
(***************************************************************************)
(* A model of the configurable Mersenne Twister of src/src/index.ts        *)
(* (class MT19937): construction, seeding by number and by array, the      *)
(* twist, tempering and the output functions.                              *)
(*                                                                         *)
(* Numbers.  The program computes on JavaScript numbers.  Every value it   *)
(* produces is an integer of magnitude below 2^48, `undefined' (a hole of  *)
(* the array, or a read outside it) or NaN (a sum with `undefined').  An   *)
(* integer v is the pair <<hi, lo>> with v = hi * 2^16 + lo and            *)
(* 0 <= lo < 2^16; hi is negative for a negative v.  The bitwise operators *)
(* convert with ToInt32 / ToUint32 as ECMAScript does.                     *)
(***************************************************************************)
EXTENDS Integers, Sequences, FiniteSets, TLC

Limb == 2 ^ 16

undefined == <<>>

NaN == <<-1>>

IsInt(v) == Len(v) = 2

Norm(h, l) == <<h + (l \div Limb), l % Limb>>

Num(k) == Norm(0, k)

\* ECMAScript ToUint32: undefined and NaN become 0, an integer is taken mod 2^32.
ToUint32(v) == IF IsInt(v) THEN <<v[1] % Limb, v[2]>> ELSE <<0, 0>>

\* ECMAScript ToInt32: as ToUint32, then read as a two's complement value.
ToInt32(v) ==
  IF IsInt(v) THEN <<((v[1] + (Limb \div 2)) % Limb) - (Limb \div 2), v[2]>> ELSE <<0, 0>>

RECURSIVE And16(_, _)
And16(a, b) ==
  IF a = 0 \/ b = 0 THEN 0
  ELSE (a % 2) * (b % 2) + 2 * And16(a \div 2, b \div 2)

Or16(a, b) == a + b - And16(a, b)

Xor16(a, b) == a + b - 2 * And16(a, b)

\* the bitwise operators on two unsigned 32-bit values
And32(x, y) == ToInt32(<<And16(x[1], y[1]), And16(x[2], y[2])>>)

Or32(x, y) == ToInt32(<<Or16(x[1], y[1]), Or16(x[2], y[2])>>)

Xor32(x, y) == ToInt32(<<Xor16(x[1], y[1]), Xor16(x[2], y[2])>>)

\* a & b
BitAnd(a, b) == And32(ToUint32(a), ToUint32(b))

\* a | b
BitOr(a, b) == Or32(ToUint32(a), ToUint32(b))

\* a ^ b
BitXor(a, b) == Xor32(ToUint32(a), ToUint32(b))

\* x >>> n for an unsigned 32-bit x
Ushr32(x, n) ==
  IF n >= 16 THEN <<0, x[1] \div (2 ^ (n - 16))>>
  ELSE <<x[1] \div (2 ^ n), (x[1] % (2 ^ n)) * (2 ^ (16 - n)) + (x[2] \div (2 ^ n))>>

\* a >>> n, 0 <= n < 32: the result is unsigned
Ushr(a, n) == Ushr32(ToUint32(a), n)

\* x << n for an unsigned 32-bit x
Shl32(x, n) ==
  IF n = 16 THEN ToInt32(<<x[2], 0>>)
  ELSE ToInt32(<<(x[1] % (2 ^ (16 - n))) * (2 ^ n) + (x[2] \div (2 ^ (16 - n))),
                 (x[2] % (2 ^ (16 - n))) * (2 ^ n)>>)

\* a << n, 0 <= n <= 16: the result is signed
Shl(a, n) == Shl32(ToUint32(a), n)

\* a + b on numbers: exact below 2^53; NaN when an operand is undefined or NaN
Add(a, b) ==
  IF IsInt(a) /\ IsInt(b) THEN Norm(a[1] + b[1], a[2] + b[2]) ELSE NaN

\* a - b
Sub(a, b) ==
  IF IsInt(a) /\ IsInt(b) THEN Norm(a[1] - b[1], a[2] - b[2]) ELSE NaN

\* x * c for integers 0 <= x < 2^16 and 0 <= c < 2^31, as a number
Mul16(x, c) ==
  Norm(x * (c \div Limb) + (((x \div 256) * (c % Limb)) \div 256),
       (((x \div 256) * (c % Limb)) % 256) * 256 + (x % 256) * (c % Limb))

\* a * c for a number 0 <= a < 2^16 and an integer constant 0 <= c < 2^31: exact
Mul(a, c) == Mul16(a[2], c)

(***************************************************************************)
(* Program constants.                                                      *)
(***************************************************************************)
_STATE_LENGTH == 624

_STATE_PERIOD == 397

_MATRIX_A == <<39176, 45279>>          \* 0x9908B0DF

_UPPER_MASK == <<32768, 0>>            \* 0x80000000

_LOWER_MASK == <<32767, 65535>>        \* 0x7FFFFFFF

_TEMPERING_MASK_1 == <<40236, 22144>>  \* 0x9D2C5680

_TEMPERING_MASK_2 == <<61382, 0>>      \* 0xEFC60000

_MAGIC_SEED == Num(19650218)

(***************************************************************************)
(* Arrays.  A JavaScript array is a sequence; index i of the program is    *)
(* position i + 1.  A read outside the array, or of a hole, is undefined;  *)
(* a write at or past the end grows the array.                             *)
(***************************************************************************)
Read(a, i) == IF i >= 0 /\ i < Len(a) THEN a[i + 1] ELSE undefined

\* new Array(n)
NewArray(n) == [k \in 1..n |-> undefined] \o <<>>

Write(a, i, v) ==
  IF i < Len(a) THEN [a EXCEPT ![i + 1] = v]
  ELSE a \o NewArray(i - Len(a)) \o <<v>>

(***************************************************************************)
(* Seeding.  A generator is a record of the fields of class MT19937.  A    *)
(* loop of the program is an operator on the loop's variables that runs    *)
(* its iterations in the program's order, the first half of them and then  *)
(* the rest, so that a loop over 624 words is evaluated at depth 10; the   *)
(* test on the first half's result makes TLC compute it before the rest.   *)
(***************************************************************************)
\* (((s & 0xFFFF0000) >>> 16) * c) << 16) + (s & 0x0000FFFF) * c
SplitMul(s, c) ==
  Add(Shl(Mul(Ushr(BitAnd(s, <<65535, 0>>), 16), c), 16),
      Mul(BitAnd(s, <<0, 65535>>), c))

\* a variant with the sign-propagating shift: prev ^ (prev >> 30)
Shifted30Signed(prev) == BitXor(prev, Num(ToInt32(prev)[1] \div (2 ^ 14)))

\* s = prev ^ (prev >>> 30)
Shifted30(prev) == BitXor(prev, Ushr(prev, 30))

\* a variant that stores the sum without >>> 0
InitNumberStepNoCoerce(sv, i) ==
  Write(sv, i, Add(SplitMul(Shifted30(Read(sv, i - 1)), 1812433253), Num(i)))

\* the body of the loop of _initWithNumber, at stateIndex = i
InitNumberStep(sv, i) ==
  Write(sv, i, Ushr(Add(SplitMul(Shifted30(Read(sv, i - 1)), 1812433253), Num(i)), 0))

\* for (stateIndex = lo; stateIndex < hi; stateIndex++)
RECURSIVE InitNumberLoop(_, _, _)
InitNumberLoop(sv, lo, hi) ==
  IF ~(lo < hi) THEN sv
  ELSE IF hi - lo = 1 THEN InitNumberStep(sv, lo)
  ELSE LET mid == (lo + hi) \div 2
           half == InitNumberLoop(sv, lo, mid)
       IN  IF Len(half) >= 0 THEN InitNumberLoop(half, mid, hi) ELSE half

_initWithNumber(g, seed) ==
  [g EXCEPT !.stateVector = InitNumberLoop(Write(g.stateVector, 0, Ushr(seed, 0)), 1, g._N),
            !.stateIndex  = IF 1 < g._N THEN g._N ELSE 1]

\* a variant that wraps i only when it is past N
ArrayAdvanceLate(sv1, i, j, keyLength, n) ==
  [stateVector |-> IF i + 1 > n THEN Write(sv1, 0, Read(sv1, n - 1)) ELSE sv1,
   i |-> IF i + 1 > n THEN 1 ELSE i + 1,
   j |-> IF j + 1 >= keyLength THEN 0 ELSE j + 1,
   copy |-> IF i + 1 > n THEN {n - 1, 0} ELSE {}]

\* the end of a step of the loops of _initWithArray, sv1 the vector written;
\* copy is the indices of stateVector that the wrap of i reads and writes
ArrayAdvance(sv1, i, j, keyLength, n) ==
  [stateVector |-> IF i + 1 >= n THEN Write(sv1, 0, Read(sv1, n - 1)) ELSE sv1,
   i |-> IF i + 1 >= n THEN 1 ELSE i + 1,
   j |-> IF j + 1 >= keyLength THEN 0 ELSE j + 1,
   copy |-> IF i + 1 >= n THEN {n - 1, 0} ELSE {}]

\* The loop variables after a step that began at st and ended as adv, with the
\* step added to the log: the pass, i and j at the start of the step, the
\* indices of stateVector (sv) and of initKey (key) it read or wrote, whether
\* it ended with the copy of the wrap, and the first and the last of the N
\* words after it.
Logged(st, adv, pass, key, n) ==
  [stateVector |-> adv.stateVector, i |-> adv.i, j |-> adv.j,
   log |-> Append(st.log, [pass |-> pass, i |-> st.i, j |-> st.j,
                           sv |-> {st.i - 1, st.i} \cup adv.copy, key |-> key,
                           copied |-> adv.copy # {},
                           first |-> Read(adv.stateVector, 0),
                           last |-> Read(adv.stateVector, n - 1)])]

\* the word the first loop of _initWithArray writes at i
ArrayMixWord(sv, initKey, i, j) ==
  Ushr(Add(Add(BitXor(Read(sv, i), SplitMul(Shifted30(Read(sv, i - 1)), 1664525)),
               Read(initKey, j)),
           Num(j)), 0)

\* the body of the first loop of _initWithArray
ArrayMixStep(st, initKey, n) ==
  Logged(st,
         ArrayAdvance(Write(st.stateVector, st.i,
                            ArrayMixWord(st.stateVector, initKey, st.i, st.j)),
                      st.i, st.j, Len(initKey), n),
         "mix", {st.j}, n)

\* for (; k; k--), k >= 0
RECURSIVE ArrayMixLoop(_, _, _, _)
ArrayMixLoop(st, initKey, k, n) ==
  IF k = 0 THEN st
  ELSE IF k = 1 THEN ArrayMixStep(st, initKey, n)
  ELSE LET half == ArrayMixLoop(st, initKey, k \div 2, n)
       IN  IF half.i >= 0 THEN ArrayMixLoop(half, initKey, k - (k \div 2), n) ELSE half

\* the word the second loop of _initWithArray writes at i
ArrayDecorWord(sv, i) ==
  Ushr(Sub(BitXor(Read(sv, i), SplitMul(Shifted30(Read(sv, i - 1)), 1566083941)), Num(i)), 0)

\* the body of the second loop of _initWithArray; j is not used and stays 0
ArrayDecorStep(st, n) ==
  Logged(st,
         ArrayAdvance(Write(st.stateVector, st.i, ArrayDecorWord(st.stateVector, st.i)),
                      st.i, -1, 0, n),
         "decor", {}, n)

\* for (k = N - 1; k; k--), k >= 0
RECURSIVE ArrayDecorLoop(_, _, _)
ArrayDecorLoop(st, k, n) ==
  IF k = 0 THEN st
  ELSE IF k = 1 THEN ArrayDecorStep(st, n)
  ELSE LET half == ArrayDecorLoop(st, k \div 2, n)
       IN  IF half.i >= 0 THEN ArrayDecorLoop(half, k - (k \div 2), n) ELSE half

\* the two loops of _initWithArray, run on the state vector sv
ArrayPasses(sv, initKey, k, n) ==
  ArrayDecorLoop(ArrayMixLoop([stateVector |-> sv, i |-> 1, j |-> 0, log |-> <<>>],
                              initKey, k, n),
                 n - 1, n)

\* a variant without the last assignment, stateVector[0] = 0x80000000
ArrayLoopsNoTopBit(g1, initKey, k) ==
  [g    |-> [g1 EXCEPT !.stateVector = ArrayPasses(g1.stateVector, initKey, k, g1._N).stateVector],
   base |-> g1.stateVector,
   log  |-> <<>>]

\* what the loops and the last assignment make of g1 and of the log of the loops
ArrayResult(g1, st) ==
  [g    |-> [g1 EXCEPT !.stateVector = Write(st.stateVector, 0, <<32768, 0>>)],
   base |-> g1.stateVector,
   log  |-> st.log]

\* _initWithArray after its call of _initWithNumber left g1: the generator it
\* leaves (g), the state vector its loops began with (base), and their log
ArrayLoops(g1, initKey, k) ==
  ArrayResult(g1, ArrayPasses(g1.stateVector, initKey, k, g1._N))

\* a variant that does not start from the state of _MAGIC_SEED
_initWithArrayNoBaseline(g, initKey) ==
  ArrayLoops(g, initKey, IF g._N > Len(initKey) THEN g._N ELSE Len(initKey)).g

\* _initWithArray with what its loops did
_initWithArrayRun(g, initKey) ==
  ArrayLoops(_initWithNumber(g, _MAGIC_SEED), initKey,
             IF g._N > Len(initKey) THEN g._N ELSE Len(initKey))

_initWithArray(g, initKey) == _initWithArrayRun(g, initKey).g

\* A seed is [isArray |-> FALSE, value |-> number] or
\* [isArray |-> TRUE, value |-> sequence of numbers].
NumberSeed(v) == [isArray |-> FALSE, value |-> v]

ArraySeed(v) == [isArray |-> TRUE, value |-> v]

\* a variant that keeps a number seed as the 32-bit value it is cut to
_initTruncatedSeed(g, seed) ==
  IF seed.isArray THEN _initWithArray([g EXCEPT !._seed = seed], seed.value)
  ELSE _initWithNumber([g EXCEPT !._seed = NumberSeed(Ushr(seed.value, 0))], seed.value)

_init(g, seed) ==
  IF seed.isArray THEN _initWithArray([g EXCEPT !._seed = seed], seed.value)
  ELSE _initWithNumber([g EXCEPT !._seed = seed], seed.value)

(***************************************************************************)
(* Generation.  The regeneration of randomInt32 is three ranges of one     *)
(* step; TwistStep is that step with the index of the word it mixes in     *)
(* (src) and of the word after kk (nxt) as the range gives them.  The      *)
(* field `touched' collects the indices of stateVector the step reads or   *)
(* writes.                                                                 *)
(***************************************************************************)
\* src ^ (y >>> 1) ^ magic[y & 0x1], magic = [0, MATRIX_A]
TwistWord(y, src, matrix) ==
  BitXor(BitXor(src, Ushr(y, 1)), Read(<<<<0, 0>>, matrix>>, BitAnd(y, <<0, 1>>)[2]))

\* y = (stateVector[kk] & UPPER_MASK) | (stateVector[nxt] & LOWER_MASK)
TwistY(g, sv, kk, nxt) ==
  BitOr(BitAnd(Read(sv, kk), g._UPPER_MASK), BitAnd(Read(sv, nxt), g._LOWER_MASK))

TwistStep(g, t, kk, nxt, src) ==
  [stateVector |-> Write(t.stateVector, kk,
                         TwistWord(TwistY(g, t.stateVector, kk, nxt),
                                   Read(t.stateVector, src), g._MATRIX_A)),
   touched |-> t.touched \cup {kk, nxt, src}]

\* for (kk = lo; kk < hi; kk++) of the first range
RECURSIVE TwistLoop1(_, _, _, _)
TwistLoop1(g, t, lo, hi) ==
  IF ~(lo < hi) THEN t
  ELSE IF hi - lo = 1 THEN TwistStep(g, t, lo, lo + 1, lo + g._M)
  ELSE LET mid == (lo + hi) \div 2
           half == TwistLoop1(g, t, lo, mid)
       IN  IF Len(half.stateVector) >= 0 THEN TwistLoop1(g, half, mid, hi) ELSE half

\* for (kk = lo; kk < hi; kk++) of the second range
RECURSIVE TwistLoop2(_, _, _, _)
TwistLoop2(g, t, lo, hi) ==
  IF ~(lo < hi) THEN t
  ELSE IF hi - lo = 1 THEN TwistStep(g, t, lo, lo + 1, lo + (g._M - g._N))
  ELSE LET mid == (lo + hi) \div 2
           half == TwistLoop2(g, t, lo, mid)
       IN  IF Len(half.stateVector) >= 0 THEN TwistLoop2(g, half, mid, hi) ELSE half

\* a variant whose last step takes the word after kk = N - 1 at index N
TwistNoWrap(g) ==
  TwistStep(g,
            TwistLoop2(g,
                       TwistLoop1(g, [stateVector |-> g.stateVector, touched |-> {}],
                                  0, g._N - g._M),
                       IF 0 < g._N - g._M THEN g._N - g._M ELSE 0, g._N - 1),
            g._N - 1, g._N, g._M - 1)

\* kk is 0 before the first loop and max(0, N - M) after it
Twist(g) ==
  TwistStep(g,
            TwistLoop2(g,
                       TwistLoop1(g, [stateVector |-> g.stateVector, touched |-> {}],
                                  0, g._N - g._M),
                       IF 0 < g._N - g._M THEN g._N - g._M ELSE 0, g._N - 1),
            g._N - 1, 0, g._M - 1)

\* y ^= y >>> 11
Temper1(y) == BitXor(y, Ushr(y, 11))

\* y ^= (y << 7) & _TEMPERING_MASK_1
Temper2(y) == BitXor(y, BitAnd(Shl(y, 7), _TEMPERING_MASK_1))

\* y ^= (y << 15) & _TEMPERING_MASK_2
Temper3(y) == BitXor(y, BitAnd(Shl(y, 15), _TEMPERING_MASK_2))

\* y ^= y >>> 18
Temper4(y) == BitXor(y, Ushr(y, 18))

Temper(y) == Temper4(Temper3(Temper2(Temper1(y))))

\* y = stateVector[stateIndex++], tempered and returned as y >>> 0; t is the
\* vector, with the indices the regeneration used, and ix the index read
ReadOut(g, t, ix, regen) ==
  [g       |-> [g EXCEPT !.stateVector = t.stateVector, !.stateIndex = ix + 1],
   y       |-> Ushr(Temper(Read(t.stateVector, ix)), 0),
   twisted |-> regen,
   touched |-> t.touched]

\* a variant that regenerates only when stateIndex > N
randomInt32Late(g) ==
  IF g.stateIndex > g._N THEN ReadOut(g, Twist(g), 0, TRUE)
  ELSE ReadOut(g, [stateVector |-> g.stateVector, touched |-> {}], g.stateIndex, FALSE)

\* The generator after the call (g), the value returned (y), whether the call
\* regenerated (twisted), and the stateVector indices the regeneration used.
randomInt32(g) ==
  IF g.stateIndex >= g._N THEN ReadOut(g, Twist(g), 0, TRUE)
  ELSE ReadOut(g, [stateVector |-> g.stateVector, touched |-> {}], g.stateIndex, FALSE)

(***************************************************************************)
(* The output functions.  Each gives the generator after the call (g), the *)
(* value returned (ret) and the randomInt32 calls it made, in order        *)
(* (calls).  A floating-point result is kept as the integer operands of    *)
(* the expression that computes it.                                        *)
(***************************************************************************)
Call(g, r) == [y |-> r.y, twisted |-> r.twisted, touched |-> r.touched, from |-> g.stateIndex]

\* a function of one randomInt32 call r made on g, returning ret
OneCall(g, r, ret) == [g |-> r.g, ret |-> ret, calls |-> <<Call(g, r)>>]

Int32Of(g, r) == OneCall(g, r, r.y)

randomInt32Fn(g) == Int32Of(g, randomInt32(g))

\* a variant with the sign-propagating shift: randomInt32() >> 1
Int31OfSigned(g, r) ==
  OneCall(g, r, <<ToInt32(r.y)[1] \div 2, (ToInt32(r.y)[1] % 2) * (Limb \div 2) + (r.y[2] \div 2)>>)

Int31Of(g, r) == OneCall(g, r, Ushr(r.y, 1))

randomInt31(g) == Int31Of(g, randomInt32(g))

\* randomInt32() * (1 / 4294967295)
Float1Of(g, r) == OneCall(g, r, [word |-> r.y, plusHalf |-> FALSE, times |-> "1/4294967295"])

randomFloat1(g) == Float1Of(g, randomInt32(g))

\* randomInt32() * (1 / 4294967296)
Float2Of(g, r) == OneCall(g, r, [word |-> r.y, plusHalf |-> FALSE, times |-> "1/4294967296"])

randomFloat2(g) == Float2Of(g, randomInt32(g))

\* (randomInt32() + 0.5) * (1 / 4294967296)
Float3Of(g, r) == OneCall(g, r, [word |-> r.y, plusHalf |-> TRUE, times |-> "1/4294967296"])

randomFloat3(g) == Float3Of(g, randomInt32(g))

\* a variant that evaluates b before a
Res53OfSwapped(g, r1, r2) ==
  [g |-> r2.g,
   ret |-> [a |-> Ushr(r2.y, 5), b |-> Ushr(r1.y, 6), times |-> "1/9007199254740992"],
   calls |-> <<Call(g, r1), Call(r1.g, r2)>>]

\* (a * 67108864.0 + b) * (1 / 9007199254740992.0), a = r1.y >>> 5, b = r2.y >>> 6
Res53Of(g, r1, r2) ==
  [g |-> r2.g,
   ret |-> [a |-> Ushr(r1.y, 5), b |-> Ushr(r2.y, 6), times |-> "1/9007199254740992"],
   calls |-> <<Call(g, r1), Call(r1.g, r2)>>]

\* the second call is made on the generator the first call left
Res53Second(g, r1) == Res53Of(g, r1, randomInt32(r1.g))

randomFloatRes53(g) == Res53Second(g, randomInt32(g))

(***************************************************************************)
(* Construction.  An argument of the constructor is a record of its type   *)
(* (typeof, with "array" for Array.isArray) and its value; the value of an *)
(* "object" is the parameters given, a function on the names of the fields *)
(* that are present.  autoSeeder is given as the number it returns, and    *)
(* entropy is the number _DEFAULT_AUTO_SEEDER would return.                *)
(***************************************************************************)
NoArg == [type |-> "undefined", value |-> <<>>]

NumberArg(v) == [type |-> "number", value |-> v]

ArrayArg(v) == [type |-> "array", value |-> v]

ObjectArg(p) == [type |-> "object", value |-> p]

\* arg !== null && typeof arg === 'object': an array is an object too
IsObject(arg) == arg.type \in {"object", "array"}

\* parameters?.name ?? default: an array has none of the fields
Param(parameters, name, default) ==
  IF parameters.type = "object" /\ name \in DOMAIN parameters.value
  THEN parameters.value[name] ELSE default

HasParam(parameters, name) ==
  parameters.type = "object" /\ name \in DOMAIN parameters.value

\* the parameters object the constructor settles on
CtorParameters(arg1, arg2) ==
  IF arg1.type # "undefined"
  THEN IF IsObject(arg1) THEN arg1 ELSE IF IsObject(arg2) THEN arg2 ELSE NoArg
  ELSE NoArg

\* the seed the constructor settles on
CtorSeed(arg1, arg2, entropy) ==
  IF arg1.type = "number" THEN NumberSeed(arg1.value)
  ELSE IF arg1.type = "array" THEN ArraySeed(arg1.value)
  ELSE IF HasParam(CtorParameters(arg1, arg2), "autoSeeder")
       THEN NumberSeed(CtorParameters(arg1, arg2).value["autoSeeder"])
       ELSE NumberSeed(entropy)

\* a variant whose default for the lower mask is _UPPER_MASK
CtorFieldsOneMask(parameters) ==
  [_N           |-> Param(parameters, "stateLength", _STATE_LENGTH),
   _M           |-> Param(parameters, "statePeriod", _STATE_PERIOD),
   _MATRIX_A    |-> Param(parameters, "matrixA", _MATRIX_A),
   _UPPER_MASK  |-> Param(parameters, "upperMask", _UPPER_MASK),
   _LOWER_MASK  |-> Param(parameters, "lowerMask", _UPPER_MASK),
   _seed        |-> NumberSeed(undefined),
   stateVector  |-> NewArray(Param(parameters, "stateLength", _STATE_LENGTH)),
   stateIndex   |-> Param(parameters, "stateLength", _STATE_LENGTH) + 1]

\* the fields set before this._init(seed)
CtorFields(parameters) ==
  [_N           |-> Param(parameters, "stateLength", _STATE_LENGTH),
   _M           |-> Param(parameters, "statePeriod", _STATE_PERIOD),
   _MATRIX_A    |-> Param(parameters, "matrixA", _MATRIX_A),
   _UPPER_MASK  |-> Param(parameters, "upperMask", _UPPER_MASK),
   _LOWER_MASK  |-> Param(parameters, "lowerMask", _LOWER_MASK),
   _seed        |-> NumberSeed(undefined),
   stateVector  |-> NewArray(Param(parameters, "stateLength", _STATE_LENGTH)),
   stateIndex   |-> Param(parameters, "stateLength", _STATE_LENGTH) + 1]

Constructor(arg1, arg2, entropy) ==
  _init(CtorFields(CtorParameters(arg1, arg2)), CtorSeed(arg1, arg2, entropy))

\* the accessors
seed(g) == g._seed

stateLength(g) == g._N

statePeriod(g) == g._M

matrixA(g) == g._MATRIX_A

upperMask(g) == g._UPPER_MASK

lowerMask(g) == g._LOWER_MASK

(***************************************************************************)
(* The state machine: one generator and the calls of its public            *)
(* operations.                                                             *)
(***************************************************************************)
VARIABLES
  gen,       \* the generator: the fields of the MT19937 instance
  args,      \* the arguments its constructor was called with
  op,        \* the last public operation called
  ret,       \* what that operation returned
  calls,     \* the randomInt32 calls that operation made, in order
  given,     \* the seed last supplied: to the constructor, by the auto seeder, or assigned
  draws,     \* the number of randomInt32 calls since the last _init
  fresh,     \* a second generator: built anew with the seed last supplied
             \* and gen's configuration, then given the same output calls
  freshRet   \* what the last output call returned on fresh

vars == <<gen, args, op, ret, calls, given, draws, fresh, freshRet>>

\* The greatest number of randomInt32 calls explored after one _init.
MaxDraws == 9

\* The constructor's lines 252-253 on the configuration of g: an empty state.
Blank(g) ==
  [g EXCEPT !._seed = NumberSeed(undefined), !.stateVector = NewArray(g._N),
            !.stateIndex = g._N + 1]

(***************************************************************************)
(* The inputs.  Parameter objects with a short state vector: valid         *)
(* (0 < M < N), with M outside (0, N) as in test/index.test.ts ("set       *)
(* custom parameters" has stateLength 123, statePeriod 456 and the masks   *)
(* 0x60000000 / 0x5FFFFFFF), and with a single word of state.              *)
(***************************************************************************)
TestMatrixA == <<34824, 49631>>    \* 0x8808C1DF

TestUpperMask == <<24576, 0>>      \* 0x60000000

TestLowerMask == <<24575, 65535>>  \* 0x5FFFFFFF

P42 == [stateLength |-> 4, statePeriod |-> 2]

P31 == [stateLength |-> 3, statePeriod |-> 1, matrixA |-> TestMatrixA]

P43 == [stateLength |-> 4, statePeriod |-> 3, autoSeeder |-> Num(56789)]

P35 == [stateLength |-> 3, statePeriod |-> 5, matrixA |-> TestMatrixA,
        upperMask |-> TestUpperMask, lowerMask |-> TestLowerMask]

P20 == [stateLength |-> 2, statePeriod |-> 0]

P11 == [stateLength |-> 1, statePeriod |-> 1]

\* numbers: 5489, -1 and 2^32 + 1 (the last two are changed by >>> 0)
ScalarSeeds == <<Num(5489), <<-1, 65535>>, <<65536, 1>>>>

\* keys: empty, shorter than N, longer than N
ArraySeeds == <<<<>>, <<Num(291), Num(564)>>, <<Num(1), <<65535, 65535>>, Num(3), Num(4), Num(5)>>>>

\* the seeds assigned, as a sequence
Seeds ==
  [i \in 1..(Len(ScalarSeeds) + Len(ArraySeeds)) |->
     IF i <= Len(ScalarSeeds) THEN NumberSeed(ScalarSeeds[i])
     ELSE ArraySeed(ArraySeeds[i - Len(ScalarSeeds)])]

\* the constructor calls, as a sequence
CtorArgs ==
  <<[arg1 |-> ObjectArg(P42), arg2 |-> NoArg, entropy |-> <<65536, 1>>],
   [arg1 |-> NumberArg(Num(5489)), arg2 |-> ObjectArg(P42), entropy |-> Num(0)],
   [arg1 |-> NumberArg(<<-1, 65535>>), arg2 |-> ObjectArg(P31), entropy |-> Num(0)],
   [arg1 |-> ObjectArg(P43), arg2 |-> NoArg, entropy |-> Num(0)],
   [arg1 |-> NumberArg(Num(5489)), arg2 |-> ObjectArg(P35), entropy |-> Num(0)],
   [arg1 |-> ObjectArg(P20), arg2 |-> NoArg, entropy |-> Num(5489)]>>

\* new MT19937(a.arg1, a.arg2)
New(a) ==
  /\ gen = Constructor(a.arg1, a.arg2, a.entropy)
  /\ args = a
  /\ op = "new"
  /\ ret = <<>>
  /\ calls = <<>>
  /\ given = CtorSeed(a.arg1, a.arg2, a.entropy)
  /\ draws = 0
  /\ fresh = gen
  /\ freshRet = <<>>

Init == \E i \in 1..Len(CtorArgs) : New(CtorArgs[i])

\* generator.seed = s
SetSeed(s) ==
  /\ gen' = _init(gen, s)
  /\ op' = "seed="
  /\ ret' = <<>>
  /\ calls' = <<>>
  /\ given' = s
  /\ draws' = 0
  /\ fresh' = _init(Blank(gen), s)
  /\ freshRet' = <<>>
  /\ UNCHANGED args

\* an output function called on gen, and on fresh
Output(name, r, f) ==
  /\ draws + Len(r.calls) <= MaxDraws
  /\ gen' = r.g
  /\ op' = name
  /\ ret' = r.ret
  /\ calls' = r.calls
  /\ draws' = draws + Len(r.calls)
  /\ fresh' = f.g
  /\ freshRet' = f.ret
  /\ UNCHANGED <<args, given>>

RandomInt32 == Output("randomInt32", randomInt32Fn(gen), randomInt32Fn(fresh))

RandomInt31 == Output("randomInt31", randomInt31(gen), randomInt31(fresh))

RandomFloat1 == Output("randomFloat1", randomFloat1(gen), randomFloat1(fresh))

RandomFloat2 == Output("randomFloat2", randomFloat2(gen), randomFloat2(fresh))

RandomFloat3 == Output("randomFloat3", randomFloat3(gen), randomFloat3(fresh))

RandomFloatRes53 ==
  Output("randomFloatRes53", randomFloatRes53(gen), randomFloatRes53(fresh))

AssignSeed == \E i \in 1..Len(Seeds) : SetSeed(Seeds[i])

Next ==
  \/ AssignSeed
  \/ RandomInt32
  \/ RandomInt31
  \/ RandomFloat1
  \/ RandomFloat2
  \/ RandomFloat3
  \/ RandomFloatRes53

Spec == Init /\ [][Next]_vars

(***************************************************************************)
(* Construction and the accessors: the four shapes of the constructor call *)
(* (no argument, a seed, a parameters object, a seed and a parameters      *)
(* object), both forms of seed, and parameters objects with any of the     *)
(* fields left out, as in test/index.test.ts.  A field left out takes its  *)
(* default, so these generators have the 624 words of MT19937.             *)
(***************************************************************************)
TestParameters ==
  [stateLength |-> 123, statePeriod |-> 456, matrixA |-> TestMatrixA,
   upperMask |-> TestUpperMask, lowerMask |-> TestLowerMask]

TestKey == <<Num(1), Num(2), Num(3), Num(4), Num(5)>>

CtorShapes ==
  <<[arg1 |-> NoArg, arg2 |-> NoArg, entropy |-> <<65536, 1>>],
    [arg1 |-> NoArg, arg2 |-> NoArg, entropy |-> Num(5489)],
    [arg1 |-> NumberArg(Num(12345)), arg2 |-> NoArg, entropy |-> Num(0)],
    [arg1 |-> ArrayArg(TestKey), arg2 |-> NoArg, entropy |-> Num(0)],
    [arg1 |-> ObjectArg(TestParameters), arg2 |-> NoArg, entropy |-> Num(5489)],
    [arg1 |-> ObjectArg([autoSeeder |-> Num(56789)]), arg2 |-> NoArg, entropy |-> Num(0)],
    [arg1 |-> NumberArg(Num(12345)), arg2 |-> ObjectArg(TestParameters), entropy |-> Num(0)],
    [arg1 |-> ArrayArg(TestKey), arg2 |-> ObjectArg(P42), entropy |-> Num(0)],
    [arg1 |-> ArrayArg(<<>>), arg2 |-> ObjectArg(P31), entropy |-> Num(0)],
    [arg1 |-> ObjectArg([matrixA |-> TestMatrixA]), arg2 |-> NoArg, entropy |-> Num(5489)],
    [arg1 |-> ObjectArg([upperMask |-> TestUpperMask]), arg2 |-> NoArg, entropy |-> Num(5489)],
    [arg1 |-> ObjectArg([lowerMask |-> TestLowerMask]), arg2 |-> NoArg, entropy |-> Num(5489)],
    [arg1 |-> ObjectArg([statePeriod |-> 2]), arg2 |-> NoArg, entropy |-> Num(5489)],
    [arg1 |-> ObjectArg([stateLength |-> 4]), arg2 |-> NoArg, entropy |-> Num(5489)],
    [arg1 |-> ObjectArg(P42), arg2 |-> NoArg, entropy |-> <<65536, 1>>],
    [arg1 |-> ObjectArg(P43), arg2 |-> NoArg, entropy |-> Num(0)],
    [arg1 |-> NumberArg(<<-1, 65535>>), arg2 |-> ObjectArg(P31), entropy |-> Num(0)],
    [arg1 |-> NumberArg(Num(5489)), arg2 |-> ObjectArg(P35), entropy |-> Num(0)]>>

InitCtor == \E i \in 1..Len(CtorShapes) : New(CtorShapes[i])

\* an accessor read
Getter(name, value) ==
  /\ op' = name
  /\ ret' = value
  /\ calls' = <<>>
  /\ UNCHANGED <<gen, args, given, draws, fresh, freshRet>>

GetSeed == Getter("seed", seed(gen))

GetStateLength == Getter("stateLength", stateLength(gen))

GetStatePeriod == Getter("statePeriod", statePeriod(gen))

GetMatrixA == Getter("matrixA", matrixA(gen))

GetUpperMask == Getter("upperMask", upperMask(gen))

GetLowerMask == Getter("lowerMask", lowerMask(gen))

NextCtor ==
  \/ GetSeed
  \/ GetStateLength
  \/ GetStatePeriod
  \/ GetMatrixA
  \/ GetUpperMask
  \/ GetLowerMask

SpecCtor == InitCtor /\ [][NextCtor]_vars

(***************************************************************************)
(* The properties.                                                         *)
(***************************************************************************)
OutputOps ==
  {"randomInt32", "randomInt31", "randomFloat1", "randomFloat2", "randomFloat3",
   "randomFloatRes53"}

ConfigPassed ==
  IF args.arg1.type = "object" THEN args.arg1
  ELSE IF args.arg2.type = "object" THEN args.arg2 ELSE NoArg

\* C2: for every shape of the constructor call and both forms of seed, each
\* accessor returns the value the parameters object passed has for the field,
\* and the default for a field it has not.
C2_AccessorsReturnConfig ==
  /\ stateLength(gen) = Param(ConfigPassed, "stateLength", 624)
  /\ statePeriod(gen) = Param(ConfigPassed, "statePeriod", 397)
  /\ matrixA(gen) = Param(ConfigPassed, "matrixA", <<39176, 45279>>)
  /\ upperMask(gen) = Param(ConfigPassed, "upperMask", <<32768, 0>>)
  /\ lowerMask(gen) = Param(ConfigPassed, "lowerMask", <<32767, 65535>>)
  /\ op = "stateLength" => ret = Param(ConfigPassed, "stateLength", 624)
  /\ op = "statePeriod" => ret = Param(ConfigPassed, "statePeriod", 397)

\* C3: reading seed gives the seed last supplied, in the form it was supplied
\* in and not cut to 32 bits, after construction, after an assignment and
\* after any output calls.
C3_SeedReadsBack == seed(gen) = given

\* the seed -1, which >>> 0 would change, read back after two draws
C3_Witness ==
  /\ ~given.isArray
  /\ given.value = <<-1, 65535>>
  /\ draws = 2
  /\ seed(gen) = given

\* an integer in [0, 2^32 - 1]
IsUint32(v) == IsInt(v) /\ v[1] >= 0 /\ v[1] < Limb

\* statePeriod is not strictly between 0 and stateLength
InvalidConfig == ~(0 < statePeriod(gen) /\ statePeriod(gen) < stateLength(gen))

\* the seed last supplied is an empty array
EmptyKey == given.isArray /\ Len(given.value) = 0

\* the state a valid initialisation leaves: the index at N, and 32-bit unsigned
\* words at 0 .. N - 1
Initialised ==
  /\ gen.stateIndex = gen._N
  /\ \A k \in 0..(gen._N - 1) : IsUint32(Read(gen.stateVector, k))

\* C4 as claimed: a configuration with statePeriod outside (0, stateLength)
\* and an empty seed array are rejected, so no generator built or seeded
\* with one is in an initialised state.
C4_InvalidRejected == (InvalidConfig \/ EmptyKey) => ~Initialised

\* C4, amended: such a configuration and such a seed are accepted; right after
\* the construction or the seed assignment the generator is initialised as for
\* valid input, and every randomInt32 call made later returns a 32-bit
\* unsigned value.
C4_InvalidAccepted ==
  (InvalidConfig \/ EmptyKey) =>
    /\ draws = 0 => Initialised
    /\ \A k \in 1..Len(calls) : IsUint32(calls[k].y)

\* an empty array was assigned to a generator with statePeriod > stateLength
C4_Witness ==
  /\ InvalidConfig
  /\ EmptyKey
  /\ op = "seed="
  /\ Initialised

\* the word of the stream held at index i of sv: tempered, as an unsigned value
WordAt(sv, i) == Ushr(Temper(Read(sv, i)), 0)

\* the word the last randomInt32 call returned: the one before the cursor
LastWord == WordAt(gen.stateVector, gen.stateIndex - 1)

\* C5: in every reachable state randomInt32 returns an integer in
\* [0, 4294967295], and randomInt31 an integer in [0, 2147483647] that is the
\* drawn word shifted right by one bit: the word is twice the value, or twice
\* the value plus one.
C5_IntegerRanges ==
  /\ op = "randomInt32" => IsUint32(ret) /\ ret = LastWord
  /\ op = "randomInt31" =>
       /\ IsUint32(ret)
       /\ ret[1] < Limb \div 2
       /\ LastWord \in {Add(ret, ret), Add(Add(ret, ret), Num(1))}

\* randomInt31 after a re-seed and earlier draws, on a word with its top bit set
C5_Witness ==
  /\ op = "randomInt31"
  /\ LastWord[1] >= Limb \div 2
  /\ given.isArray
  /\ draws >= 3

\* the cursor after one randomInt32 call made with the cursor at i
CursorAfter(g, i) == IF i >= g._N THEN 1 ELSE i + 1

\* the word drawn first by an operation that made two calls
FirstOfTwo ==
  IF gen'.stateIndex >= 2 THEN WordAt(gen'.stateVector, gen'.stateIndex - 2)
  ELSE WordAt(gen.stateVector, gen.stateIndex)

\* the word drawn last by an operation
LastDrawn == WordAt(gen'.stateVector, gen'.stateIndex - 1)

\* what one step of an output function does, for C6
OutputStep ==
  /\ op' \in {"randomInt32", "randomInt31", "randomFloat1", "randomFloat2", "randomFloat3"} =>
       /\ Len(calls') = 1
       /\ draws' = draws + 1
       /\ gen'.stateIndex = CursorAfter(gen, gen.stateIndex)
       /\ op' = "randomInt32" => ret' = LastDrawn
       /\ op' = "randomInt31" => ret' = Ushr(LastDrawn, 1)
       /\ op' \in {"randomFloat1", "randomFloat2", "randomFloat3"} => ret'.word = LastDrawn
  /\ op' = "randomFloatRes53" =>
       /\ Len(calls') = 2
       /\ draws' = draws + 2
       /\ gen'.stateIndex = CursorAfter(gen, CursorAfter(gen, gen.stateIndex))
       /\ ret'.a = Ushr(FirstOfTwo, 5)
       /\ ret'.b = Ushr(LastDrawn, 6)
  /\ op' \in OutputOps =>
       /\ seed(gen') = seed(gen)
       /\ stateLength(gen') = stateLength(gen)
       /\ statePeriod(gen') = statePeriod(gen)
       /\ matrixA(gen') = matrixA(gen)
       /\ upperMask(gen') = upperMask(gen)
       /\ lowerMask(gen') = lowerMask(gen)

\* C6: each call of randomInt32, randomInt31, randomFloat1, randomFloat2 or
\* randomFloat3 takes one word of the stream and moves the cursor by one; each
\* call of randomFloatRes53 takes two consecutive words, a from the first
\* (>>> 5) and b from the second (>>> 6); no output function changes the seed
\* or a configuration constant.
C6_WordsConsumed == [][OutputStep]_vars

\* randomFloatRes53 with the regeneration between its two calls
C6_Witness ==
  /\ op = "randomFloatRes53"
  /\ Len(calls) = 2
  /\ calls[2].twisted
  /\ gen.stateIndex = 1
  /\ ret.a # Ushr(LastWord, 5)

\* C7: right after seeding with a non-empty array of any length,
\* stateVector[0] is 0x80000000 and stateIndex is N, and the first randomInt32
\* call made after it regenerates.
C7_ArraySeedTopBit ==
  (given.isArray /\ Len(given.value) >= 1) =>
    /\ draws = 0 => Read(gen.stateVector, 0) = <<32768, 0>> /\ gen.stateIndex = gen._N
    /\ (draws > 0 /\ draws = Len(calls)) => calls[1].twisted

\* a key longer than the state vector was assigned after earlier draws
C7_Witness ==
  /\ given.isArray
  /\ Len(given.value) > stateLength(gen)
  /\ op = "seed="
  /\ ~seed(Constructor(args.arg1, args.arg2, args.entropy)).isArray
  /\ Read(gen.stateVector, 0) = <<32768, 0>>
  /\ Read(gen.stateVector, 1) # <<0, 0>>

\* upperMask | lowerMask = 0xFFFFFFFF and upperMask & lowerMask = 0
Complementary ==
  /\ ToUint32(BitOr(upperMask(gen), lowerMask(gen))) = <<65535, 65535>>
  /\ ToUint32(BitAnd(upperMask(gen), lowerMask(gen))) = <<0, 0>>

\* C8 as claimed: the masks of every constructed generator are complementary,
\* in every reachable state.
C8_MasksComplementary == Complementary

\* C8, amended: the masks are those the constructor set and no seed assignment
\* or output call changes them; they are the complementary defaults when the
\* constructor is given neither, and masks that are given are not checked.
C8_MasksFixed ==
  /\ upperMask(gen) = upperMask(CtorFields(CtorParameters(args.arg1, args.arg2)))
  /\ lowerMask(gen) = lowerMask(CtorFields(CtorParameters(args.arg1, args.arg2)))
  /\ (~HasParam(ConfigPassed, "upperMask") /\ ~HasParam(ConfigPassed, "lowerMask")) =>
       /\ Complementary
       /\ upperMask(gen) = <<32768, 0>>
       /\ lowerMask(gen) = <<32767, 65535>>

\* the overlapping masks of test/index.test.ts, kept over a re-seed and draws
C8_Witness ==
  /\ upperMask(gen) = <<24576, 0>>
  /\ lowerMask(gen) = <<24575, 65535>>
  /\ ~Complementary
  /\ given.isArray
  /\ draws >= 2

\* 0 < statePeriod < stateLength
ValidConfig == 0 < statePeriod(gen) /\ statePeriod(gen) < stateLength(gen)

\* stateVector[(kk + M) mod N] ^ (y >>> 1) ^ (y odd ? matrixA : 0), with
\* y = (stateVector[kk] & upperMask) | (stateVector[(kk + 1) mod N] & lowerMask)
ModularY(g, sv, kk) ==
  BitOr(BitAnd(sv[kk + 1], g._UPPER_MASK), BitAnd(sv[((kk + 1) % g._N) + 1], g._LOWER_MASK))

ModularWord(g, sv, kk, y) ==
  BitXor(BitXor(sv[((kk + g._M) % g._N) + 1], Ushr(y, 1)),
         IF y[2] % 2 = 1 THEN g._MATRIX_A ELSE <<0, 0>>)

\* kk = 0 .. N - 1 in order, in place
RECURSIVE ModularTwist(_, _, _)
ModularTwist(g, sv, kk) ==
  IF kk >= g._N THEN sv
  ELSE ModularTwist(g, [sv EXCEPT ![kk + 1] = ModularWord(g, sv, kk, ModularY(g, sv, kk))], kk + 1)

\* the words of a state vector as 32-bit patterns
Bits(sv) == [k \in 1..Len(sv) |-> ToUint32(sv[k])]

\* the three ranges agree with the modular formula, on the vector t they leave
SameAsModular(g, t) ==
  /\ Bits(t.stateVector) = Bits(ModularTwist(g, g.stateVector, 0))
  /\ t.touched \subseteq 0..(g._N - 1)

\* C9: for 0 < M < N the regeneration of randomInt32, run on the state vector
\* of any reachable state, leaves the vector that the modular formula applied
\* to kk = 0 .. N - 1 in order leaves, and reads and writes indices 0 .. N - 1
\* only.
C9_TwistIsModular == ValidConfig => SameAsModular(gen, Twist(gen))

\* the second regeneration of a generator of four words has just run
C9_Witness ==
  /\ ValidConfig
  /\ stateLength(gen) = 4
  /\ op \in OutputOps
  /\ calls[Len(calls)].twisted
  /\ draws = 5
  /\ gen.stateIndex = 1

\* C10: between operations stateIndex is in 0 .. N; counting the randomInt32
\* calls from the last _init, the call regenerates exactly when its number is
\* 1, N + 1, 2N + 1, ...; each call returns the tempered word at the cursor
\* and leaves the cursor one further.
C10_CursorAndRegeneration ==
  /\ gen.stateIndex \in 0..gen._N
  /\ draws = 0 => gen.stateIndex = gen._N
  /\ draws > 0 => gen.stateIndex = ((draws - 1) % gen._N) + 1
  /\ \A k \in 1..Len(calls) :
       /\ calls[k].twisted <=> ((draws - Len(calls) + k) - 1) % gen._N = 0
       /\ calls[k].twisted <=> calls[k].from >= gen._N
  /\ Len(calls) > 0 => calls[Len(calls)].y = LastWord

\* the ninth call on a generator of four words: the third regeneration
C10_Witness ==
  /\ stateLength(gen) = 4
  /\ draws = 9
  /\ Len(calls) = 1
  /\ calls[1].twisted
  /\ gen.stateIndex = 1

(***************************************************************************)
(* Seeding alone: generators of 1 to 8 words, seeded again and again with  *)
(* numbers and with arrays, and never drawn from.  A generator of one word *)
(* is followed until an array seeding has made its state vector longer     *)
(* than stateLength: from there on what a seeding leaves depends on all    *)
(* the seedings before it.                                                 *)
(***************************************************************************)
P52 == [stateLength |-> 5, statePeriod |-> 2]

P65 == [stateLength |-> 6, statePeriod |-> 5]

P83 == [stateLength |-> 8, statePeriod |-> 3]

InitConfigs == <<P11, P20, P31, P42, P52, P65, P83>>

\* the constructor calls: a parameters object and no seed
InitCtorArgs ==
  [i \in 1..Len(InitConfigs) |->
     [arg1 |-> ObjectArg(InitConfigs[i]), arg2 |-> NoArg, entropy |-> Num(5489)]]

\* 32-bit unsigned seeds: 0, 1, 5489, 19650218, 0x12345678, 0x0000FFFF,
\* 0x7FFFFFFF, 0x80000000, 0x80000001, 0xFFFF0000, 0xFFFFFFFF
InitNumbers ==
  <<Num(0), Num(1), Num(5489), Num(19650218), <<4660, 22136>>, <<0, 65535>>,
    <<32767, 65535>>, <<32768, 0>>, <<32768, 1>>, <<65535, 0>>, <<65535, 65535>>>>

\* keys of 1, 2, 4, 5 and 9 words
InitKeys ==
  <<<<Num(1)>>,
    <<Num(291), Num(564)>>,
    <<Num(291), Num(564), Num(837), Num(1110)>>,
    <<Num(1), <<65535, 65535>>, Num(3), Num(4), Num(5)>>,
    <<<<65535, 65535>>, <<32768, 0>>, Num(0), Num(7), <<4660, 22136>>, Num(6), Num(5),
      Num(4), Num(3)>>>>

InitSeeding == \E i \in 1..Len(InitCtorArgs) : New(InitCtorArgs[i])

\* generator.seed = number
SeedNumber ==
  \E i \in 1..Len(InitNumbers) :
    /\ Len(gen.stateVector) <= stateLength(gen)
    /\ SetSeed(NumberSeed(InitNumbers[i]))

\* generator.seed = array
SeedArray ==
  \E i \in 1..Len(InitKeys) :
    /\ Len(gen.stateVector) <= stateLength(gen)
    /\ SetSeed(ArraySeed(InitKeys[i]))

NextSeeding ==
  \/ SeedNumber
  \/ SeedArray

SpecSeeding == InitSeeding /\ [][NextSeeding]_vars

\* 32-bit wrapping arithmetic on pairs: the sum, a word times 2^k, and the
\* product of a word x and a constant c < 2^31 as the sum of x * 2^k over the
\* bits k of c that are set
Wrap32(h, l) == <<(h + (l \div Limb)) % Limb, l % Limb>>

Sum32(a, b) == Wrap32(a[1] + b[1], a[2] + b[2])

TimesPower(x, k) ==
  IF k < 16 THEN Wrap32(x[1] * (2 ^ k), x[2] * (2 ^ k))
  ELSE <<(x[2] * (2 ^ (k - 16))) % Limb, 0>>

RECURSIVE SumOverBits(_, _, _, _)
SumOverBits(x, c, lo, hi) ==
  IF lo = hi THEN (IF (c \div (2 ^ lo)) % 2 = 1 THEN TimesPower(x, lo) ELSE <<0, 0>>)
  ELSE Sum32(SumOverBits(x, c, lo, (lo + hi) \div 2),
             SumOverBits(x, c, ((lo + hi) \div 2) + 1, hi))

WrapMul(x, c) == SumOverBits(x, c, 0, 30)

\* (1812433253 * (prev XOR (prev >> 30)) + i) mod 2^32
ScalarWord(prev, i) ==
  Sum32(WrapMul(ToUint32(BitXor(prev, Ushr(prev, 30))), 1812433253), Num(i))

\* the seeds of InitNumbers other than s0 whose scalar initialisation of a
\* generator configured as g leaves the state vector sv
SameStateSeeds(g, s0, sv) ==
  {i \in 1..Len(InitNumbers) :
     /\ InitNumbers[i] # s0
     /\ _initWithNumber(Blank(g), InitNumbers[i]).stateVector = sv}

\* C11: after _initWithNumber with a 32-bit unsigned seed s0, stateVector[0]
\* is s0, every later word is 1812433253 times (the word before XOR its top
\* two bits) plus its index, mod 2^32, every word is in [0, 2^32 - 1],
\* stateIndex is N, and no other 32-bit seed leaves the same state vector.
C11_ScalarInit ==
  (~given.isArray /\ IsUint32(given.value)) =>
    /\ Read(gen.stateVector, 0) = given.value
    /\ \A i \in 1..(gen._N - 1) :
         Read(gen.stateVector, i) = ScalarWord(Read(gen.stateVector, i - 1), i)
    /\ \A i \in 0..(gen._N - 1) : IsUint32(Read(gen.stateVector, i))
    /\ gen.stateIndex = gen._N
    /\ SameStateSeeds(gen, given.value, gen.stateVector) = {}

\* the seed 0xFFFF0000 assigned to a generator of eight words
C11_Witness ==
  /\ ~given.isArray
  /\ given.value = <<65535, 0>>
  /\ op = "seed="
  /\ stateLength(gen) = 8
  /\ Len(gen.stateVector) = 8
  /\ Read(gen.stateVector, 7) = ScalarWord(Read(gen.stateVector, 6), 7)
  /\ gen.stateIndex = 8

\* the state vector is the scalar initialisation of seed s0, by the recurrence
ScalarInitOf(sv, s0, n) ==
  /\ Len(sv) = n
  /\ sv[1] = s0
  /\ \A i \in 1..(n - 1) : sv[i + 1] = ScalarWord(sv[i], i)

\* the number of steps of a pass in a log
StepsOf(log, pass) == Cardinality({k \in 1..Len(log) : log[k].pass = pass})

\* The log of an array seeding of n words with a key of l words is as C12 has
\* it: max(n, l) steps of the mixing pass and then n - 1 of the decorrelation
\* pass; i starts at 1 and goes on from step to step, over the change of pass
\* too, back to 1 after n - 1, where the step copies stateVector[n - 1] into
\* stateVector[0]; j starts at 0 and is back at 0 after l - 1; every index is
\* in range.
LogAsClaimed(log, n, l) ==
  /\ StepsOf(log, "mix") = (IF n > l THEN n ELSE l)
  /\ StepsOf(log, "decor") = n - 1
  /\ Len(log) = (IF n > l THEN n ELSE l) + n - 1
  /\ \A k \in 1..Len(log) :
       /\ log[k].pass = (IF k <= (IF n > l THEN n ELSE l) THEN "mix" ELSE "decor")
       /\ log[k].i = (IF k = 1 \/ log[(IF k = 1 THEN 1 ELSE k - 1)].i = n - 1
                      THEN 1 ELSE log[(IF k = 1 THEN 1 ELSE k - 1)].i + 1)
       /\ log[k].i \in 1..(n - 1)
       /\ log[k].sv \subseteq 0..(n - 1)
       /\ log[k].copied <=> log[k].i = n - 1
       /\ log[k].copied => log[k].first = log[k].last
       /\ log[k].pass = "mix" =>
            /\ log[k].j = (k - 1) % l
            /\ log[k].j \in 0..(l - 1)
            /\ log[k].key \subseteq 0..(l - 1)

\* an array seeding of a generator configured as g leaves the state of g, began
\* from the scalar initialisation of 19650218, and ran as C12 has it
RunAsClaimed(g, run, initKey) ==
  /\ run.g.stateVector = g.stateVector
  /\ run.g.stateIndex = g.stateIndex
  /\ ScalarInitOf(run.base, Num(19650218), g._N)
  /\ LogAsClaimed(run.log, g._N, Len(initKey))

\* C12 as claimed: every array seeding with a key of one word or more starts
\* from the scalar initialisation of 19650218 and makes max(N, L) mixing steps
\* and N - 1 decorrelation steps with i in 1 .. N - 1 and j in 0 .. L - 1, so
\* that no index is out of range.
C12_ArraySeedingInRange ==
  (given.isArray /\ Len(given.value) >= 1) =>
    RunAsClaimed(gen, _initWithArrayRun(Blank(gen), given.value), given.value)

\* C12, amended: the same for every generator of two words or more; a generator
\* of one word, which the constructor accepts, is left out.
C12_ArraySeedingTwoWords ==
  (given.isArray /\ Len(given.value) >= 1 /\ stateLength(gen) >= 2) =>
    RunAsClaimed(gen, _initWithArrayRun(Blank(gen), given.value), given.value)

\* a key of nine words assigned to a generator of eight words: nine mixing
\* steps, and seven decorrelation steps that begin at i = 3
LongKeyRun(run) ==
  /\ StepsOf(run.log, "mix") = 9
  /\ run.log[10].pass = "decor"
  /\ run.log[10].i = 3
  /\ run.log[7].copied

C12_Witness ==
  /\ given.isArray
  /\ Len(given.value) = 9
  /\ stateLength(gen) = 8
  /\ op = "seed="
  /\ LongKeyRun(_initWithArrayRun(Blank(gen), given.value))

====
